---- MODULE Spec2Model ----
(***************************************************************************)
(* ip-analyzer: the address parsers and the CIDR derivations of the two    *)
(* IPAnalyzer builds of the repository:                                    *)
(*   - the IPv4-only analyzer   (src/src/ip_analyzer.cc), names as in the  *)
(*     source;                                                             *)
(*   - the dual-family analyzer (the ip_analyzer.cc that follows the       *)
(*     README text in src/README.md), names with the suffix _dual.         *)
(* Text is a sequence of one-character strings.  A machine word is a       *)
(* sequence of bits, most significant first, so that 32- and 64-bit        *)
(* values keep their width; an address is a sequence of bytes (0..255),    *)
(* as octets_ and bytes_ are.                                              *)
(***************************************************************************)
EXTENDS Integers, Sequences, FiniteSets, TLC

VARIABLES impl, input, pc, ip_, cidr_, addr, out

vars == <<impl, input, pc, ip_, cidr_, addr, out>>

-----------------------------------------------------------------------------
(* Characters and text                                                     *)

DecDigits == <<"0", "1", "2", "3", "4", "5", "6", "7", "8", "9">>

HexDigits == <<"0", "1", "2", "3", "4", "5", "6", "7", "8", "9",
               "a", "b", "c", "d", "e", "f">>

UpperHex == <<"A", "B", "C", "D", "E", "F">>

\* The value of character c as a digit, or -1 when it is no digit at all.
DigitValue(c) ==
  IF \E i \in 1..16 : HexDigits[i] = c
    THEN (CHOOSE i \in 1..16 : HexDigits[i] = c) - 1
    ELSE IF \E i \in 1..6 : UpperHex[i] = c
      THEN (CHOOSE i \in 1..6 : UpperHex[i] = c) + 9
      ELSE -1

IsDigitOf(c, base) == DigitValue(c) >= 0 /\ DigitValue(c) < base

IsSpace(c) == c = " "

\* std::string::find(ch): the first index (1-based) of ch in s, 0 for npos.
FindChar(s, ch) ==
  IF \E i \in 1..Len(s) : s[i] = ch
    THEN CHOOSE i \in 1..Len(s) : s[i] = ch /\ \A j \in 1..(i - 1) : s[j] # ch
    ELSE 0

\* std::string::find("::"): the first index of two adjacent colons, 0 for npos.
FindDoubleColon(s) ==
  IF \E i \in 1..(Len(s) - 1) : s[i] = ":" /\ s[i + 1] = ":"
    THEN CHOOSE i \in 1..(Len(s) - 1) :
           /\ s[i] = ":" /\ s[i + 1] = ":"
           /\ \A j \in 1..(i - 1) : ~(s[j] = ":" /\ s[j + 1] = ":")
    ELSE 0

\* std::count(s.begin(), s.end(), ch)
CountChar(s, ch) == Cardinality({i \in 1..Len(s) : s[i] = ch})

\* The tokens successive std::getline(stream, token, delim) calls return
\* until the call fails: a delimiter ends a token (possibly empty); what
\* follows the last delimiter is a token only if it is not empty.
RECURSIVE GetLines(_, _)
GetLines(s, delim) ==
  IF s = <<>> THEN <<>>
  ELSE LET p == FindChar(s, delim) IN
       IF p = 0 THEN <<s>>
       ELSE <<SubSeq(s, 1, p - 1)>> \o GetLines(SubSeq(s, p + 1, Len(s)), delim)

\* s padded on the left with fill up to width w (std::setw / std::setfill on
\* a right-adjusted stream); a longer s is written whole.
RECURSIVE PadLeft(_, _, _)
PadLeft(s, w, fill) == IF Len(s) >= w THEN s ELSE PadLeft(<<fill>> \o s, w, fill)

RECURSIVE Repeat(_, _)
Repeat(ch, n) == IF n <= 0 THEN <<>> ELSE <<ch>> \o Repeat(ch, n - 1)

-----------------------------------------------------------------------------
(* std::stoi                                                               *)

IntMax == 2147483647

\* The digits of s from index k on, in the given base, accumulated as
\* strtol does; "over" is set once the magnitude leaves 0..IntMax+1
\* (IntMax+1 itself is kept as IntMax with the flag "min").
RECURSIVE Accumulate(_, _, _, _)
Accumulate(s, k, base, st) ==
  IF k > Len(s) \/ ~IsDigitOf(s[k], base) THEN st
  ELSE LET d == DigitValue(s[k]) IN
       IF st.over \/ st.min THEN
         Accumulate(s, k + 1, base, [st EXCEPT !.over = TRUE, !.min = FALSE, !.n = st.n + 1])
       ELSE IF st.acc > (IntMax - d) \div base THEN
         \* the magnitude exceeds IntMax: exactly IntMax + 1, or more
         IF \/ d >= 1 /\ (IntMax - (d - 1)) % base = 0
                      /\ st.acc = (IntMax - (d - 1)) \div base
            \/ d = 0 /\ IntMax % base = base - 1
                      /\ st.acc = (IntMax \div base) + 1
           THEN Accumulate(s, k + 1, base, [st EXCEPT !.min = TRUE, !.acc = IntMax, !.n = st.n + 1])
           ELSE Accumulate(s, k + 1, base, [st EXCEPT !.over = TRUE, !.n = st.n + 1])
       ELSE Accumulate(s, k + 1, base, [st EXCEPT !.acc = st.acc * base + d, !.n = st.n + 1])

RECURSIVE SkipSpace(_, _)
SkipSpace(s, k) == IF k <= Len(s) /\ IsSpace(s[k]) THEN SkipSpace(s, k + 1) ELSE k

\* std::stoi(s, nullptr, base): leading white space, an optional sign, for
\* base 16 an optional 0x, then digits up to the first character that is
\* none.  No digit: std::invalid_argument; a value outside int:
\* std::out_of_range.  Trailing characters are ignored.
stoi(s, base) ==
  LET k0   == SkipSpace(s, 1)
      neg  == k0 <= Len(s) /\ s[k0] = "-"
      k1   == IF k0 <= Len(s) /\ (s[k0] = "-" \/ s[k0] = "+") THEN k0 + 1 ELSE k0
      hasX == /\ base = 16 /\ k1 + 2 <= Len(s) /\ s[k1] = "0"
              /\ (s[k1 + 1] = "x" \/ s[k1 + 1] = "X")
              /\ IsDigitOf(s[k1 + 2], 16)
      k2   == IF hasX THEN k1 + 2 ELSE k1
      st   == Accumulate(s, k2, base, [acc |-> 0, n |-> 0, over |-> FALSE, min |-> FALSE])
  IN  IF st.n = 0 THEN [err |-> "invalid_argument", val |-> 0]
      ELSE IF st.over \/ (st.min /\ ~neg) THEN [err |-> "out_of_range", val |-> 0]
      ELSE IF st.min THEN [err |-> "none", val |-> (0 - IntMax) - 1]
      ELSE [err |-> "none", val |-> IF neg THEN 0 - st.acc ELSE st.acc]

\* static_cast<uint8_t>(int) and static_cast<uint16_t>(int)
ToUint8(v) == v % 256

ToUint16(v) == v % 65536

-----------------------------------------------------------------------------
(* Machine words: sequences of bits, most significant bit first            *)

RECURSIVE Pow2(_)
Pow2(n) == IF n = 0 THEN 1 ELSE 2 * Pow2(n - 1)

Zeros(w) == [i \in 1..w |-> 0]

Ones(w) == [i \in 1..w |-> 1]

\* The w-bit word of the non-negative integer v (v < 2^31), modulo 2^w.
RECURSIVE WordOf(_, _)
WordOf(v, w) == IF w = 0 THEN <<>> ELSE Append(WordOf(v \div 2, w - 1), v % 2)

\* The integer of a word of at most 31 significant bits.
RECURSIVE ValueOf(_)
ValueOf(b) ==
  IF b = <<>> THEN 0 ELSE 2 * ValueOf(SubSeq(b, 1, Len(b) - 1)) + b[Len(b)]

\* a << n and a >> n for 0 <= n < Len(a)
Shl(a, n) == [i \in 1..Len(a) |-> IF i + n <= Len(a) THEN a[i + n] ELSE 0]

Shr(a, n) == [i \in 1..Len(a) |-> IF i - n >= 1 THEN a[i - n] ELSE 0]

BitNot(a) == [i \in 1..Len(a) |-> 1 - a[i]]

BitAnd(a, b) == [i \in 1..Len(a) |-> IF a[i] = 1 /\ b[i] = 1 THEN 1 ELSE 0]

BitOr(a, b) == [i \in 1..Len(a) |-> IF a[i] = 1 \/ b[i] = 1 THEN 1 ELSE 0]

\* a + b and a - b modulo 2^Len(a): the bits up to index i, given the carry
\* (the borrow) into bit i from the less significant bits.
RECURSIVE AddUpTo(_, _, _, _)
AddUpTo(a, b, i, carry) ==
  IF i = 0 THEN <<>>
  ELSE LET t == a[i] + b[i] + carry IN
       IF t >= 2 THEN Append(AddUpTo(a, b, i - 1, 1), t % 2)
                 ELSE Append(AddUpTo(a, b, i - 1, 0), t % 2)

RECURSIVE SubUpTo(_, _, _, _)
SubUpTo(a, b, i, borrow) ==
  IF i = 0 THEN <<>>
  ELSE LET t == a[i] - b[i] - borrow IN
       IF t < 0 THEN Append(SubUpTo(a, b, i - 1, 1), t % 2)
                ELSE Append(SubUpTo(a, b, i - 1, 0), t % 2)

WordAdd(a, b) == AddUpTo(a, b, Len(a), 0)

WordSub(a, b) == SubUpTo(a, b, Len(a), 0)

\* a <= b as unsigned integers (words of the same width)
WordLeq(a, b) ==
  \/ a = b
  \/ \E i \in 1..Len(a) : a[i] < b[i] /\ \A j \in 1..(i - 1) : a[j] = b[j]

\* Conversion to a narrower or wider unsigned type.
Truncate(a, w) == SubSeq(a, Len(a) - w + 1, Len(a))

ZeroExtend(a, w) == Zeros(w - Len(a)) \o a

\* Bytes (0..255) and words
ByteBits(v) == WordOf(v, 8)

RECURSIVE BytesToWord(_)
BytesToWord(bs) ==
  IF bs = <<>> THEN <<>> ELSE ByteBits(bs[1]) \o BytesToWord(Tail(bs))

WordToBytes(a) ==
  [k \in 1..(Len(a) \div 8) |-> ValueOf(SubSeq(a, 8 * (k - 1) + 1, 8 * k))]

ByteAnd(x, y) == ValueOf(BitAnd(ByteBits(x), ByteBits(y)))

ByteOr(x, y) == ValueOf(BitOr(ByteBits(x), ByteBits(y)))

-----------------------------------------------------------------------------
(* Address construction from text                                          *)

Thrown(kind) == [err |-> kind, bytes |-> <<>>]

Built(bs) == [err |-> "none", bytes |-> bs]

\* The loop of IPv4Address::IPv4Address(std::string_view) over the tokens
\* toks[k..]; i octets are stored in oct so far.
RECURSIVE OctetLoop(_, _, _, _)
OctetLoop(toks, k, i, oct) ==
  IF k > Len(toks) THEN
    IF i # 4 THEN Thrown("invalid_argument") ELSE Built(oct)
  ELSE IF i >= 4 THEN Thrown("invalid_argument")
  ELSE LET r == stoi(toks[k], 10) IN
       IF r.err # "none" THEN Thrown(r.err)
       ELSE IF r.val < 0 \/ r.val > 255 THEN Thrown("invalid_argument")
       ELSE OctetLoop(toks, k + 1, i + 1, Append(oct, ToUint8(r.val)))

\* IPv4Address::IPv4Address(std::string_view address).  The stream is built
\* from address.data(), a char pointer: it reads to the end of the buffer
\* the view points into, not to the end of the view.  "text" is that
\* buffer from the view's first character on.
IPv4Address(text) == OctetLoop(GetLines(text, "."), 1, 0, <<>>)

\* IPv4Address::IPv4Address(uint32_t): the four bytes, high byte first.
IPv4FromUint32(word) == WordToBytes(word)

\* IPv4Address::to_uint32
to_uint32(octets) == BytesToWord(octets)

\* The second loop of expand_ipv6_address: every group, padded to four
\* characters with '0' (an empty group is written as "0" first), joined
\* by ':'.
RECURSIVE PadGroups(_, _)
PadGroups(groups, k) ==
  IF k > Len(groups) THEN <<>>
  ELSE (IF k > 1 THEN <<":">> ELSE <<>>)
       \o PadLeft(IF groups[k] = <<>> THEN <<"0">> ELSE groups[k], 4, "0")
       \o PadGroups(groups, k + 1)

RECURSIVE AppendZeroGroups(_, _)
AppendZeroGroups(s, i) ==
  IF i >= 8 THEN s ELSE AppendZeroGroups(s \o <<":", "0", "0", "0", "0">>, i + 1)

\* IPv6Address::expand_ipv6_address.  A negative missing_groups becomes a
\* huge size_t and std::string(count, ch) throws std::length_error.
expand_ipv6_address(address) ==
  LET double_colon_pos == FindDoubleColon(address)
      left  == SubSeq(address, 1, double_colon_pos - 1)
      right == SubSeq(address, double_colon_pos + 2, Len(address))
      left_groups    == CountChar(left, ":") + 1
      right_groups   == CountChar(right, ":") + 1
      missing_groups == 8 - left_groups - right_groups
      expanded == IF double_colon_pos # 0
                    THEN left \o Repeat(":", missing_groups) \o right
                    ELSE address
      groups == GetLines(expanded, ":")
  IN  IF double_colon_pos # 0 /\ missing_groups < 0
        THEN [err |-> "length_error", text |-> <<>>]
        ELSE [err |-> "none",
              text |-> AppendZeroGroups(PadGroups(groups, 1), Len(groups))]

\* The loop of IPv6Address::IPv6Address(std::string_view) over the groups
\* of the expanded text; bytes_ was zero-filled before.
RECURSIVE HextetLoop(_, _, _)
HextetLoop(groups, k, bs) ==
  IF k > Len(groups) \/ Len(bs) >= 16 THEN
    IF Len(bs) # 16 THEN Thrown("invalid_argument") ELSE Built(bs)
  ELSE IF groups[k] = <<>> THEN HextetLoop(groups, k + 1, bs)
  ELSE LET r == stoi(groups[k], 16) IN
       IF r.err # "none" THEN Thrown(r.err)
       ELSE LET value == ToUint16(r.val) IN
            HextetLoop(groups, k + 1, bs \o <<value \div 256, value % 256>>)

\* IPv6Address::IPv6Address(std::string_view address)
IPv6Address(address) ==
  LET e == expand_ipv6_address(address) IN
  IF e.err # "none" THEN Thrown(e.err)
  ELSE HextetLoop(GetLines(e.text, ":"), 1, <<>>)

-----------------------------------------------------------------------------
(* Analyzer construction                                                   *)

Failed(kind) == [err |-> kind, bytes |-> <<>>, cidr |-> 0]

Analyzer(bs, c) == [err |-> "none", bytes |-> bs, cidr |-> c]

\* IPAnalyzer::IPAnalyzer(std::string_view ip_cidr) of the IPv4-only
\* analyzer.  The member initialiser builds ip_ first, from the view up to
\* the '/', whose data() reaches the end of ip_cidr.
IPAnalyzer(ip_cidr) ==
  LET ip        == IPv4Address(ip_cidr)
      slash_pos == FindChar(ip_cidr, "/")
      r         == stoi(SubSeq(ip_cidr, slash_pos + 1, Len(ip_cidr)), 10)
      cidr      == ToUint8(r.val)
  IN  IF ip.err # "none" THEN Failed(ip.err)
      ELSE IF slash_pos = 0 THEN Failed("invalid_argument")
      ELSE IF r.err # "none" THEN Failed(r.err)
      ELSE IF cidr > 32 THEN Failed("invalid_argument")
      ELSE Analyzer(ip.bytes, cidr)

\* The dual-family constructor without the range check of the IPv6 branch
IPAnalyzer_dual_unchecked6(ip_cidr) ==
  LET slash_pos == FindChar(ip_cidr, "/")
      ip_str    == IF slash_pos = 0 THEN ip_cidr ELSE SubSeq(ip_cidr, 1, slash_pos - 1)
      r         == stoi(SubSeq(ip_cidr, slash_pos + 1, Len(ip_cidr)), 10)
      cidr      == IF slash_pos = 0
                     THEN (IF FindChar(ip_cidr, ":") # 0 THEN 128 ELSE 32)
                     ELSE ToUint8(r.val)
      is6       == FindChar(ip_str, ":") # 0
      ip        == IF is6 THEN IPv6Address(ip_str) ELSE IPv4Address(ip_cidr)
  IN  IF slash_pos # 0 /\ r.err # "none" THEN Failed(r.err)
      ELSE IF ip.err # "none" THEN Failed(ip.err)
      ELSE IF ~is6 /\ cidr > 32 THEN Failed("invalid_argument")
      ELSE Analyzer(ip.bytes, cidr)

\* IPAnalyzer::IPAnalyzer(std::string_view ip_cidr) of the dual-family
\* analyzer.  ip_str is a view into ip_cidr: IPv6Address copies the view,
\* IPv4Address reads from its data() to the end of ip_cidr.
IPAnalyzer_dual(ip_cidr) ==
  LET slash_pos == FindChar(ip_cidr, "/")
      ip_str    == IF slash_pos = 0 THEN ip_cidr ELSE SubSeq(ip_cidr, 1, slash_pos - 1)
      r         == stoi(SubSeq(ip_cidr, slash_pos + 1, Len(ip_cidr)), 10)
      cidr      == IF slash_pos = 0
                     THEN (IF FindChar(ip_cidr, ":") # 0 THEN 128 ELSE 32)
                     ELSE ToUint8(r.val)
      is6       == FindChar(ip_str, ":") # 0
      ip        == IF is6 THEN IPv6Address(ip_str) ELSE IPv4Address(ip_cidr)
  IN  IF slash_pos # 0 /\ r.err # "none" THEN Failed(r.err)
      ELSE IF ip.err # "none" THEN Failed(ip.err)
      ELSE IF is6 /\ cidr > 128 THEN Failed("invalid_argument")
      ELSE IF ~is6 /\ cidr > 32 THEN Failed("invalid_argument")
      ELSE Analyzer(ip.bytes, cidr)

-----------------------------------------------------------------------------
(* Derivations of the IPv4-only analyzer; ip is octets_, cidr is cidr_     *)

Text0000 == <<"0", ".", "0", ".", "0", ".", "0">>

Text255 == <<"2", "5", "5", ".", "2", "5", "5", ".", "2", "5", "5", ".", "2", "5", "5">>

\* IPAnalyzer::get_network
get_network(ip, cidr) ==
  IF cidr = 0 THEN IPv4Address(Text0000).bytes
  ELSE LET mask == IF cidr = 32 THEN Ones(32) ELSE BitNot(Shr(Ones(32), cidr))
       IN  IPv4FromUint32(BitAnd(to_uint32(ip), mask))

\* IPAnalyzer::get_netmask
get_netmask(ip, cidr) ==
  IF cidr = 32 THEN IPv4Address(Text255).bytes
  ELSE LET mask == IF cidr = 0 THEN Zeros(32) ELSE Shl(Ones(32), 32 - cidr)
       IN  IPv4FromUint32(mask)

\* IPAnalyzer::get_broadcast
get_broadcast(ip, cidr) ==
  IF cidr = 32 THEN ip
  ELSE IF cidr = 0 THEN IPv4Address(Text255).bytes
  ELSE LET mask == Shl(Ones(32), 32 - cidr)
       IN  IPv4FromUint32(BitOr(to_uint32(ip), BitNot(mask)))

\* IPAnalyzer::get_host_range: the pair <<first, last>>
get_host_range(ip, cidr) ==
  IF cidr = 32 THEN <<ip, ip>>
  ELSE LET network_int   == to_uint32(get_network(ip, cidr))
           broadcast_int == to_uint32(get_broadcast(ip, cidr))
       IN  <<IPv4FromUint32(WordAdd(network_int, WordOf(1, 32))),
             IPv4FromUint32(WordSub(broadcast_int, WordOf(1, 32)))>>

\* get_num_hosts without the case for cidr_ = 31: a /31 is counted as
\* 2^1 - 2 = 0 hosts.
get_num_hosts_no31(ip, cidr) ==
  IF cidr = 32 THEN WordOf(1, 32)
  ELSE IF cidr = 0 THEN BitNot(WordOf(1, 32))
  ELSE Truncate(WordSub(Shl(WordOf(1, 64), 32 - cidr), WordOf(2, 64)), 32)

\* IPAnalyzer::get_num_hosts: a uint32_t; the shift and the subtraction are
\* done in unsigned long long and the result is converted on return.
get_num_hosts(ip, cidr) ==
  IF cidr = 32 THEN WordOf(1, 32)
  ELSE IF cidr = 31 THEN WordOf(2, 32)
  ELSE IF cidr = 0 THEN BitNot(WordOf(1, 32))
  ELSE Truncate(WordSub(Shl(WordOf(1, 64), 32 - cidr), WordOf(2, 64)), 32)

\* Unsigned a <= x <= b
WordBetween(x, a, b) == WordLeq(a, x) /\ WordLeq(x, b)

\* is_private with the second range ending at 172.16.255.255
is_private_172_16(ip, cidr) ==
  LET v == to_uint32(ip) IN
  \/ WordBetween(v, BytesToWord(<<10, 0, 0, 0>>), BytesToWord(<<10, 255, 255, 255>>))
  \/ WordBetween(v, BytesToWord(<<172, 16, 0, 0>>), BytesToWord(<<172, 16, 255, 255>>))
  \/ WordBetween(v, BytesToWord(<<192, 168, 0, 0>>), BytesToWord(<<192, 168, 255, 255>>))

\* IPAnalyzer::is_private: three range comparisons on the 32-bit value
is_private(ip, cidr) ==
  LET v == to_uint32(ip) IN
  \/ WordBetween(v, BytesToWord(<<10, 0, 0, 0>>), BytesToWord(<<10, 255, 255, 255>>))
  \/ WordBetween(v, BytesToWord(<<172, 16, 0, 0>>), BytesToWord(<<172, 31, 255, 255>>))
  \/ WordBetween(v, BytesToWord(<<192, 168, 0, 0>>), BytesToWord(<<192, 168, 255, 255>>))

-----------------------------------------------------------------------------
(* Derivations of the dual-family analyzer; bs is the held address's bytes *)
(* (4 for an IPv4Address, 16 for an IPv6Address), cidr is cidr_            *)

is_ipv4(bs) == Len(bs) = 4

\* 0xFFFFFFFF << (32 - cidr_) on a 32-bit unsigned int.  For cidr_ = 0 the
\* shift count equals the width, which is undefined: a build either masks
\* the count to five bits (the word is left as it is) or shifts every bit
\* out (the word is 0).  The set of words a build can produce.
Mask32_dual(cidr) ==
  IF 32 - cidr < 32 THEN {Shl(Ones(32), 32 - cidr)} ELSE {Ones(32), Zeros(32)}

\* (uint8_t)(0xFF << (8 - remainingBits)) and (uint8_t)(0xFF >> remainingBits)
HighBits(remainingBits) == ToUint8(255 * Pow2(8 - remainingBits))

LowBits(remainingBits) == 255 \div Pow2(remainingBits)

\* IPAnalyzer::get_network, IPv4 branch, with the mask the build produced
get_network4_dual(bs, mask) == IPv4FromUint32(BitAnd(to_uint32(bs), mask))

\* IPAnalyzer::get_network, IPv6 branch
get_network6_dual(bs, cidr) ==
  LET fullBytes     == cidr \div 8
      remainingBits == cidr % 8
      firstZero     == fullBytes + (IF remainingBits > 0 THEN 1 ELSE 0)
  IN  [i \in 1..16 |->
         IF i - 1 >= firstZero THEN 0
         ELSE IF remainingBits > 0 /\ i - 1 = fullBytes
           THEN ByteAnd(bs[i], HighBits(remainingBits))
           ELSE bs[i]]

\* IPAnalyzer::get_netmask, IPv4 branch
get_netmask4_dual(bs, mask) == IPv4FromUint32(mask)

\* IPAnalyzer::get_netmask, IPv6 branch
get_netmask6_dual(bs, cidr) ==
  LET fullBytes     == cidr \div 8
      remainingBits == cidr % 8
      firstZero     == fullBytes + (IF remainingBits > 0 THEN 1 ELSE 0)
  IN  [i \in 1..16 |->
         IF i - 1 >= firstZero THEN 0
         ELSE IF remainingBits > 0 /\ i - 1 = fullBytes
           THEN HighBits(remainingBits)
           ELSE 255]

\* IPAnalyzer::get_broadcast, IPv4 branch
get_broadcast4_dual(bs, mask) == IPv4FromUint32(BitOr(to_uint32(bs), BitNot(mask)))

\* IPAnalyzer::get_broadcast, IPv6 branch, and last_bytes of get_host_range
\* before the decrement: every byte from fullBytes on is set to 0xFF, then
\* byte fullBytes is or-ed with 0xFF >> remainingBits.
get_broadcast6_dual(bs, cidr) ==
  LET fullBytes     == cidr \div 8
      remainingBits == cidr % 8
  IN  [i \in 1..16 |->
         IF i - 1 < fullBytes THEN bs[i]
         ELSE IF remainingBits > 0 /\ i - 1 = fullBytes
           THEN ByteOr(255, LowBits(remainingBits))
           ELSE 255]

\* for (i = 15; i >= 0; --i) if (++bytes[i] != 0) break;
RECURSIVE IncBytes(_, _)
IncBytes(bs, i) ==
  IF i < 1 THEN bs
  ELSE LET v == (bs[i] + 1) % 256 IN
       IF v # 0 THEN [bs EXCEPT ![i] = v] ELSE IncBytes([bs EXCEPT ![i] = v], i - 1)

\* for (i = 15; i >= 0; --i) if (--bytes[i] != 0xFF) break;
RECURSIVE DecBytes(_, _)
DecBytes(bs, i) ==
  IF i < 1 THEN bs
  ELSE LET v == (bs[i] - 1) % 256 IN
       IF v # 255 THEN [bs EXCEPT ![i] = v] ELSE DecBytes([bs EXCEPT ![i] = v], i - 1)

\* IPAnalyzer::get_host_range, IPv4 branch
get_host_range4_dual(bs, cidr, mask) ==
  LET ip_int    == to_uint32(bs)
      network   == BitAnd(ip_int, mask)
      broadcast == BitOr(ip_int, BitNot(mask))
      collapse  == cidr = 32 \/ cidr = 31
      first_host == IF collapse THEN network ELSE WordAdd(network, WordOf(1, 32))
      last_host  == IF collapse THEN broadcast ELSE WordSub(broadcast, WordOf(1, 32))
  IN  <<IPv4FromUint32(first_host), IPv4FromUint32(last_host)>>

\* IPAnalyzer::get_host_range, IPv6 branch: network_bytes starts as the
\* address itself.
get_host_range6_dual(bs, cidr) ==
  LET network_bytes == bs
      last_bytes    == get_broadcast6_dual(bs, cidr)
  IN  IF cidr < 128
        THEN <<IncBytes(network_bytes, 16), DecBytes(last_bytes, 16)>>
        ELSE <<network_bytes, last_bytes>>

\* get_num_hosts without the case for an IPv6 prefix length of 64 or less:
\* the shift is by 64 or more and leaves no bit.
get_num_hosts_dual_shift(bs, cidr) ==
  IF is_ipv4(bs) THEN
    IF cidr >= 31 THEN (IF cidr = 31 THEN WordOf(2, 64) ELSE WordOf(1, 64))
    ELSE WordSub(Shl(WordOf(1, 64), 32 - cidr), WordOf(2, 64))
  ELSE
    IF cidr >= 127 THEN (IF cidr = 127 THEN WordOf(2, 64) ELSE WordOf(1, 64))
    ELSE Shl(WordOf(1, 64), 128 - cidr)

\* IPAnalyzer::get_num_hosts: a uint64_t
get_num_hosts_dual(bs, cidr) ==
  IF is_ipv4(bs) THEN
    IF cidr >= 31 THEN (IF cidr = 31 THEN WordOf(2, 64) ELSE WordOf(1, 64))
    ELSE WordSub(Shl(WordOf(1, 64), 32 - cidr), WordOf(2, 64))
  ELSE
    IF cidr >= 127 THEN (IF cidr = 127 THEN WordOf(2, 64) ELSE WordOf(1, 64))
    ELSE IF cidr <= 64 THEN Ones(64)
    ELSE Shl(WordOf(1, 64), 128 - cidr)

\* IPv4Address::is_private: three masked comparisons
IPv4_is_private_dual(bs) ==
  LET v == to_uint32(bs) IN
  \/ BitAnd(v, BytesToWord(<<255, 0, 0, 0>>)) = BytesToWord(<<10, 0, 0, 0>>)
  \/ BitAnd(v, BytesToWord(<<255, 240, 0, 0>>)) = BytesToWord(<<172, 16, 0, 0>>)
  \/ BitAnd(v, BytesToWord(<<255, 255, 0, 0>>)) = BytesToWord(<<192, 168, 0, 0>>)

\* IPv6Address::is_private
IPv6_is_private_dual(bs) == bs[1] = 253 \/ bs[1] = 252

\* IPAnalyzer::is_private
is_private_dual(bs) ==
  IF is_ipv4(bs) THEN IPv4_is_private_dual(bs) ELSE IPv6_is_private_dual(bs)

\* GetIPv6Scope with the Link-Local test on the first byte only
GetIPv6Scope_fe(bs) ==
  IF bs[1] = 254 THEN "Link-Local"
  ELSE IF bs[1] = 253 \/ bs[1] = 252 THEN "Unique Local"
  ELSE IF bs[1] = 255 THEN "Multicast"
  ELSE "Global"

\* IPAnalyzerApp::GetIPv6Scope of the dual-family main.cc
GetIPv6Scope(bs) ==
  IF bs[1] = 254 /\ ByteAnd(bs[2], 192) = 128 THEN "Link-Local"
  ELSE IF bs[1] = 253 \/ bs[1] = 252 THEN "Unique Local"
  ELSE IF bs[1] = 255 THEN "Multicast"
  ELSE "Global"

-----------------------------------------------------------------------------
(* Formatting                                                              *)

\* operator<<(std::ostream&, int) for a non-negative value
RECURSIVE DecimalText(_)
DecimalText(v) ==
  IF v < 10 THEN <<DecDigits[v + 1]>>
  ELSE DecimalText(v \div 10) \o <<DecDigits[(v % 10) + 1]>>

\* IPv4Address::to_string
to_string(octets) ==
  DecimalText(octets[1]) \o <<".">> \o DecimalText(octets[2]) \o <<".">>
    \o DecimalText(octets[3]) \o <<".">> \o DecimalText(octets[4])

-----------------------------------------------------------------------------
(* Input texts                                                             *)

\* Bounds of the input space.
MaxPrefix4 == 33      \* IPv4 texts carry the suffixes /0 .. /MaxPrefix4
MaxPrefix6 == 129     \* IPv6 texts carry the suffixes /0 .. /MaxPrefix6
MaxSuffix == 290      \* the suffix sweep runs over -MaxSuffix .. MaxSuffix
MaxGroups4 == 5       \* dotted texts have 1 .. MaxGroups4 groups
MaxGroups6 == 9       \* colon texts have up to MaxGroups6 groups a side

RECURSIVE Join(_, _)
Join(groups, sep) ==
  IF groups = <<>> THEN <<>>
  ELSE IF Len(groups) = 1 THEN groups[1]
  ELSE groups[1] \o <<sep>> \o Join(Tail(groups), sep)

SignedText(n) == IF n < 0 THEN <<"-">> \o DecimalText(0 - n) ELSE DecimalText(n)

Min(a, b) == IF a < b THEN a ELSE b

\* IPv4 addresses of the derivation grid: both ends of the address space,
\* the addresses at and next to the ends of the three private ranges, and
\* the addresses of the tests.
Quads ==
  { <<0, 0, 0, 0>>, <<255, 255, 255, 255>>, <<0, 255, 255, 255>>, <<255, 0, 0, 0>>,
    <<9, 255, 255, 255>>, <<10, 0, 0, 0>>, <<10, 0, 0, 1>>, <<10, 255, 255, 255>>,
    <<11, 0, 0, 0>>, <<172, 15, 255, 255>>, <<172, 16, 0, 0>>, <<172, 16, 0, 1>>,
    <<172, 31, 255, 255>>, <<172, 32, 0, 0>>, <<192, 167, 255, 255>>,
    <<192, 168, 0, 0>>, <<192, 168, 0, 1>>, <<192, 168, 178, 0>>,
    <<192, 168, 255, 255>>, <<192, 169, 0, 0>>, <<8, 8, 8, 8>>,
    <<127, 255, 255, 255>>, <<128, 0, 0, 0>>, <<1, 2, 3, 4>> }

GridTexts4 ==
  {to_string(q) \o <<"/">> \o DecimalText(p) : q \in Quads, p \in 0..MaxPrefix4}

\* IPv6 addresses of the derivation grid, in full notation.
Hextets6 ==
  { <<<<"2", "0", "0", "1">>, <<"d", "b", "8">>, <<"8", "5", "a", "3">>, <<"0">>, <<"0">>, <<"8", "a", "2", "e">>, <<"3", "7", "0">>, <<"7", "3", "3", "4">>>>,
    <<<<"f", "e", "8", "0">>, <<"0">>, <<"0">>, <<"0">>, <<"0">>, <<"0">>, <<"0">>, <<"1">>>>,
    <<<<"f", "d", "1", "2">>, <<"3", "4", "5", "6">>, <<"7", "8", "9", "a">>, <<"1">>, <<"0">>, <<"0">>, <<"0">>, <<"f", "f">>>>,
    <<<<"f", "c", "0", "0">>, <<"0">>, <<"0">>, <<"0">>, <<"0">>, <<"0">>, <<"0">>, <<"0">>>>,
    <<<<"f", "f", "0", "2">>, <<"0">>, <<"0">>, <<"0">>, <<"0">>, <<"0">>, <<"0">>, <<"f", "b">>>>,
    <<<<"f", "f", "f", "f">>, <<"f", "f", "f", "f">>, <<"f", "f", "f", "f">>, <<"f", "f", "f", "f">>, <<"f", "f", "f", "f">>, <<"f", "f", "f", "f">>, <<"f", "f", "f", "f">>, <<"f", "f", "f", "f">>>>,
    <<<<"1">>, <<"2">>, <<"3">>, <<"4">>, <<"5">>, <<"6">>, <<"7">>, <<"8">>>>,
    <<<<"0">>, <<"0">>, <<"0">>, <<"0">>, <<"0">>, <<"1">>, <<"f", "f", "f", "f">>, <<"f", "f", "f", "f">>>> }

GridTexts6 ==
  {Join(h, ":") \o <<"/">> \o DecimalText(p) : h \in Hextets6, p \in 0..MaxPrefix6}

\* The suffix sweep: one address of each family, every integer suffix of
\* the range, and suffixes that are no integer.
SweepAddresses == {to_string(<<192, 168, 0, 1>>), Join(<<<<"1">>, <<"2">>, <<"3">>, <<"4">>, <<"5">>, <<"6">>, <<"7">>, <<"8">>>>, ":")}

OddSuffixes == {<<>>, <<"8", "x">>, <<"a">>, <<"2", ".", "5">>, <<"9", "9", "9", "9", "9", "9", "9", "9", "9", "9", "9">>, <<" ", "2", "4">>}

SweepTexts ==
  {a \o <<"/">> \o SignedText(n) : a \in SweepAddresses, n \in (0 - MaxSuffix)..MaxSuffix}
  \cup {a \o <<"/">> \o x : a \in SweepAddresses, x \in OddSuffixes}
  \cup SweepAddresses

\* Dotted texts: 1 .. MaxGroups4 groups, each "0" or "255", at most one of
\* them replaced by a group that is no octet.
GoodOctets == {<<"0">>, <<"2", "5", "5">>}

OddOctets == {<<"2", "5", "6">>, <<"4", "a">>, <<"a">>, <<>>, <<" ", "7">>, <<"-", "0">>, <<"9", "9", "9", "9", "9", "9", "9", "9", "9", "9", "9">>}

DottedGroups ==
  UNION {[1..n -> GoodOctets] : n \in 1..MaxGroups4}
  \cup UNION {{[g EXCEPT ![k] = x] : g \in [1..n -> GoodOctets], k \in 1..n, x \in OddOctets}
              : n \in 1..MaxGroups4}

DottedTexts ==
  {Join(g, ".") \o x : g \in DottedGroups, x \in {<<>>, <<"/", "2", "4">>, <<".">>}}

\* Colon texts: the first k groups of a left list and the last m groups of
\* a right list, joined directly or by "::".
LeftLists == {<<<<"2", "0", "0", "1">>, <<"d", "b", "8">>, <<"8", "5", "a", "3">>, <<"1">>, <<"2">>, <<"3">>, <<"4">>, <<"5">>, <<"6">>>>, <<<<"f", "e", "8", "0">>, <<"a">>, <<"b">>, <<"c">>, <<"d">>, <<"e">>, <<"f">>, <<"1", "0">>, <<"1", "1">>>>}

RightLists == {<<<<"9">>, <<"8">>, <<"7">>, <<"6">>, <<"5">>, <<"4">>, <<"3">>, <<"2">>, <<"1">>>>, <<<<"1", "7">>, <<"1", "6">>, <<"1", "5">>, <<"1", "4">>, <<"1", "3">>, <<"1", "2">>, <<"8", "a", "2", "e">>, <<"3", "7", "0">>, <<"7", "3", "3", "4">>>>}

FirstGroups(l, k) == SubSeq(l, 1, Min(k, Len(l)))

LastGroups(l, m) == SubSeq(l, Len(l) - Min(m, Len(l)) + 1, Len(l))

PlainColonTexts ==
  {Join(FirstGroups(l, k), ":") : l \in LeftLists, k \in 1..MaxGroups6}

CompressedTexts ==
  {Join(FirstGroups(l, k), ":") \o <<":", ":">> \o Join(LastGroups(r, m), ":") :
     l \in LeftLists, r \in RightLists, k \in 0..MaxGroups6, m \in 0..MaxGroups6}

OddColonTexts == {<<"g", ":", "2", ":", "3", ":", "4", ":", "5", ":", "6", ":", "7", ":", "8">>, <<"z", "z", "z", "z", ":", "2", ":", "3", ":", "4", ":", "5", ":", "6", ":", "7", ":", "8">>, <<"1", "2", "3", "4", "5", ":", "2", ":", "3", ":", "4", ":", "5", ":", "6", ":", "7", ":", "8">>, <<":", "1", ":", "2", ":", "3", ":", "4", ":", "5", ":", "6", ":", "7">>, <<"1", ":", "2", ":", "3", ":", "4", ":", "5", ":", "6", ":", "7", ":">>, <<":", ":", "f", "f", "f", "f", ":", "1", "9", "2", ".", "0", ".", "2", ".", "1", "2", "8">>, <<"2", "0", "0", "1", ":", "0", "d", "b", "8", ":", "8", "5", "a", "3", ":", "0", "0", "0", "0", ":", "0", "0", "0", "0", ":", "8", "a", "2", "e", ":", "0", "3", "7", "0", ":", "7", "3", "3", "4">>}

ColonTexts ==
  {c \o x : c \in PlainColonTexts \cup CompressedTexts \cup OddColonTexts,
            x \in {<<>>, <<"/", "6", "4">>}}

\* The sweep of the second octet across 172.16.0.0/12, the private range
\* that ends inside an octet: both ends of every 172.b.0.0/16.
PrivateSweepTexts ==
  {to_string(<<172, b, c, c>>) \o <<"/", "1", "2">> : b \in 0..255, c \in {0, 255}}

\* First hextets at and next to the ends of the IPv6 scope prefixes, in
\* full-notation addresses under a short, a middle and the full prefix
\* length, and the loopback address.
ScopeHeads ==
  { <<"f", "e", "7", "f">>, <<"f", "e", "8", "0">>, <<"f", "e", "8", "1">>,
    <<"f", "e", "b", "f">>, <<"f", "e", "c", "0">>, <<"f", "e", "f", "f">>,
    <<"f", "e", "0", "0">>, <<"f", "b", "f", "f">>, <<"f", "c", "0", "0">>,
    <<"f", "c", "f", "f">>, <<"f", "d", "0", "0">>, <<"f", "d", "f", "f">>,
    <<"f", "f", "0", "0">>, <<"f", "f", "f", "f">>, <<"0", "0", "f", "e">>,
    <<"f", "e">>, <<"f", "d">>, <<"0">> }

Loopback == <<":", ":", "1", "/", "1", "2", "8">>

ScopeSweepTexts ==
  {h \o <<":", "0", ":", "0", ":", "0", ":", "0", ":", "0", ":", "0", ":", "1", "/">> \o DecimalText(p) :
     h \in ScopeHeads, p \in {0, 10, 128}}
  \cup {Loopback}

Inputs ==
  GridTexts4 \cup GridTexts6 \cup SweepTexts \cup DottedTexts \cup ColonTexts
    \cup PrivateSweepTexts \cup ScopeSweepTexts

-----------------------------------------------------------------------------
(* The program: one text is handed to one build.  Either an address is     *)
(* built from it directly, or an analyzer is constructed and then asked    *)
(* for its derived values, in any order and any number of times.           *)
(*   impl    "v4" (the IPv4-only analyzer) or "dual"                       *)
(*   input   the text                                                      *)
(*   pc      "start", "address" (an address constructor returned or        *)
(*           threw), "constructed" (the analyzer exists), "thrown" (its    *)
(*           constructor threw)                                            *)
(*   ip_     the analyzer's address bytes, cidr_ its prefix length         *)
(*   addr    the outcome of the last constructor call: its kind and the    *)
(*           exception it threw ("none" if it returned), with the bytes    *)
(*   out     the last derivation call and the value it returned            *)

NoAddr == [ctor |-> "none", err |-> "none", bytes |-> <<>>]

NoOut == [op |-> "none", val |-> <<>>]

Init ==
  /\ impl \in {"v4", "dual"}
  /\ input \in Inputs
  /\ pc = "start"
  /\ ip_ = <<>>
  /\ cidr_ = 0
  /\ addr = NoAddr
  /\ out = NoOut

\* IPv4Address(text), called directly as the tests do; the constructor is
\* the same in both builds.
NewIPv4Address ==
  /\ pc = "start"
  /\ LET r == IPv4Address(input) IN
     addr' = [ctor |-> "IPv4Address", err |-> r.err, bytes |-> r.bytes]
  /\ pc' = "address"
  /\ UNCHANGED <<impl, input, ip_, cidr_, out>>

\* IPv6Address(text), called directly
NewIPv6Address ==
  /\ pc = "start"
  /\ impl = "dual"
  /\ LET r == IPv6Address(input) IN
     addr' = [ctor |-> "IPv6Address", err |-> r.err, bytes |-> r.bytes]
  /\ pc' = "address"
  /\ UNCHANGED <<impl, input, ip_, cidr_, out>>

Construct(r) ==
  /\ addr' = [ctor |-> "IPAnalyzer", err |-> r.err, bytes |-> r.bytes]
  /\ pc' = IF r.err = "none" THEN "constructed" ELSE "thrown"
  /\ ip_' = r.bytes
  /\ cidr_' = r.cidr
  /\ UNCHANGED <<impl, input, out>>

\* IPAnalyzer analyzer(input), IPv4-only build
NewIPAnalyzer ==
  /\ pc = "start"
  /\ impl = "v4"
  /\ Construct(IPAnalyzer(input))

\* IPAnalyzer analyzer(input), dual-family build
NewIPAnalyzer_dual ==
  /\ pc = "start"
  /\ impl = "dual"
  /\ Construct(IPAnalyzer_dual(input))

Return(op, val) ==
  /\ out' = [op |-> op, val |-> val]
  /\ UNCHANGED <<impl, input, pc, ip_, cidr_, addr>>

Constructed(build) == pc = "constructed" /\ impl = build

\* The calls on the IPv4-only analyzer
GetNetwork == Constructed("v4") /\ Return("get_network", get_network(ip_, cidr_))

GetNetmask == Constructed("v4") /\ Return("get_netmask", get_netmask(ip_, cidr_))

GetBroadcast == Constructed("v4") /\ Return("get_broadcast", get_broadcast(ip_, cidr_))

GetHostRange == Constructed("v4") /\ Return("get_host_range", get_host_range(ip_, cidr_))

GetNumHosts == Constructed("v4") /\ Return("get_num_hosts", get_num_hosts(ip_, cidr_))

IsPrivate == Constructed("v4") /\ Return("is_private", is_private(ip_, cidr_))

\* The calls on the dual-family analyzer.  In the IPv4 branches the mask
\* is whatever the build's shift produced.
GetNetwork_dual ==
  /\ Constructed("dual")
  /\ IF is_ipv4(ip_)
       THEN \E mask \in Mask32_dual(cidr_) :
              Return("get_network", get_network4_dual(ip_, mask))
       ELSE Return("get_network", get_network6_dual(ip_, cidr_))

GetNetmask_dual ==
  /\ Constructed("dual")
  /\ IF is_ipv4(ip_)
       THEN \E mask \in Mask32_dual(cidr_) :
              Return("get_netmask", get_netmask4_dual(ip_, mask))
       ELSE Return("get_netmask", get_netmask6_dual(ip_, cidr_))

GetBroadcast_dual ==
  /\ Constructed("dual")
  /\ IF is_ipv4(ip_)
       THEN \E mask \in Mask32_dual(cidr_) :
              Return("get_broadcast", get_broadcast4_dual(ip_, mask))
       ELSE Return("get_broadcast", get_broadcast6_dual(ip_, cidr_))

GetHostRange_dual ==
  /\ Constructed("dual")
  /\ IF is_ipv4(ip_)
       THEN \E mask \in Mask32_dual(cidr_) :
              Return("get_host_range", get_host_range4_dual(ip_, cidr_, mask))
       ELSE Return("get_host_range", get_host_range6_dual(ip_, cidr_))

GetNumHosts_dual ==
  Constructed("dual") /\ Return("get_num_hosts", get_num_hosts_dual(ip_, cidr_))

IsPrivate_dual == Constructed("dual") /\ Return("is_private", is_private_dual(ip_))

\* The "IPv6 Scope" row of PrintResults
PrintIPv6Scope ==
  Constructed("dual") /\ ~is_ipv4(ip_) /\ Return("scope", GetIPv6Scope(ip_))

Next ==
  \/ NewIPv4Address
  \/ NewIPv6Address
  \/ NewIPAnalyzer
  \/ NewIPAnalyzer_dual
  \/ GetNetwork
  \/ GetNetmask
  \/ GetBroadcast
  \/ GetHostRange
  \/ GetNumHosts
  \/ IsPrivate
  \/ GetNetwork_dual
  \/ GetNetmask_dual
  \/ GetBroadcast_dual
  \/ GetHostRange_dual
  \/ GetNumHosts_dual
  \/ IsPrivate_dual
  \/ PrintIPv6Scope

Spec == Init /\ [][Next]_vars

-----------------------------------------------------------------------------
(* What a text denotes, read strictly; used to state the properties only   *)

\* The groups of s between the separators, empty ones included.
RECURSIVE SplitOn(_, _)
SplitOn(s, sep) ==
  LET p == FindChar(s, sep) IN
  IF p = 0 THEN <<s>>
  ELSE <<SubSeq(s, 1, p - 1)>> \o SplitOn(SubSeq(s, p + 1, Len(s)), sep)

HasSlash(s) == FindChar(s, "/") # 0

AddressPart(s) == IF HasSlash(s) THEN SubSeq(s, 1, FindChar(s, "/") - 1) ELSE s

SuffixPart(s) == SubSeq(s, FindChar(s, "/") + 1, Len(s))

IsDecimalDigit(c) == \E i \in 1..10 : DecDigits[i] = c

IsHexDigit(c) == DigitValue(c) >= 0

\* s consists of decimal digits only, at least one
IsNaturalText(s) == Len(s) >= 1 /\ \A i \in 1..Len(s) : IsDecimalDigit(s[i])

\* s is a decimal integer: digits, after an optional minus sign
IsIntegerText(s) ==
  IsNaturalText(s) \/ (Len(s) >= 2 /\ s[1] = "-" /\ IsNaturalText(Tail(s)))

RECURSIVE StripZeros(_)
StripZeros(s) == IF Len(s) > 1 /\ s[1] = "0" THEN StripZeros(Tail(s)) ELSE s

\* The number written by at most nine digits in the given base
RECURSIVE NumberOf(_, _)
NumberOf(s, base) ==
  IF s = <<>> THEN 0
  ELSE base * NumberOf(SubSeq(s, 1, Len(s) - 1), base) + DigitValue(s[Len(s)])

\* s is a non-negative decimal integer of value at most max (max < 1000)
IsNaturalAtMost(s, max) ==
  /\ IsNaturalText(s)
  /\ Len(StripZeros(s)) <= 3
  /\ NumberOf(StripZeros(s), 10) <= max

\* The bit width of the family the text's address part belongs to
FamilyWidth(s) == IF FindChar(AddressPart(s), ":") # 0 THEN 128 ELSE 32

\* The text is four groups of decimal digits, each of value 0..255
IsDottedQuad(s) ==
  LET g == SplitOn(s, ".") IN
  Len(g) = 4 /\ \A k \in 1..4 : IsNaturalAtMost(g[k], 255)

DottedQuadBytes(s) ==
  LET g == SplitOn(s, ".") IN [k \in 1..4 |-> NumberOf(StripZeros(g[k]), 10)]

\* A hextet: one to four hexadecimal digits
IsHextet(g) == Len(g) >= 1 /\ Len(g) <= 4 /\ \A i \in 1..Len(g) : IsHexDigit(g[i])

\* The explicit groups of one side of a "::"; an empty side has none.
SideGroups(side) == IF side = <<>> THEN <<>> ELSE SplitOn(side, ":")

LeftOf(s) == SubSeq(s, 1, FindDoubleColon(s) - 1)

RightOf(s) == SubSeq(s, FindDoubleColon(s) + 2, Len(s))

\* The text is a compressed IPv6 address: one "::", hextets on both sides,
\* at most seven of them in all.
IsCompressed(s) ==
  /\ FindDoubleColon(s) # 0
  /\ LET l == SideGroups(LeftOf(s))
         r == SideGroups(RightOf(s))
     IN  /\ Len(l) + Len(r) <= 7
         /\ \A k \in 1..Len(l) : IsHextet(l[k])
         /\ \A k \in 1..Len(r) : IsHextet(r[k])

\* The eight groups a compressed address stands for: the zero groups take
\* the place of the "::".
CompressedGroups(s) ==
  LET l == SideGroups(LeftOf(s))
      r == SideGroups(RightOf(s))
  IN  l \o [k \in 1..(8 - Len(l) - Len(r)) |-> <<"0">>] \o r

\* The 16 bytes of eight hextets, high byte first
GroupBytes(groups) ==
  [i \in 1..16 |->
     LET v == NumberOf(groups[(i + 1) \div 2], 16) IN
     IF i % 2 = 1 THEN v \div 256 ELSE v % 256]

\* The number of groups of the expanded form of a colon text: the groups
\* written, with a "::" standing for at least one group and for as many as
\* it takes to reach eight.
ExpandedGroupCount(s) ==
  IF FindDoubleColon(s) = 0 THEN Len(SplitOn(s, ":"))
  ELSE LET n == Len(SideGroups(LeftOf(s))) + Len(SideGroups(RightOf(s)))
       IN  IF n + 1 > 8 THEN n + 1 ELSE 8

\* The w-bit mask of prefix length p: the leading p bits set
PrefixMask(w, p) == [i \in 1..w |-> IF i <= p THEN 1 ELSE 0]

\* The word b with the bits below the prefix cleared, and with them set
KeepPrefix(b, p) == [i \in 1..Len(b) |-> IF i <= p THEN b[i] ELSE 0]

FillBelowPrefix(b, p) == [i \in 1..Len(b) |-> IF i <= p THEN b[i] ELSE 1]

\* b + 1 and b - 1 modulo 2^Len(b): a bit flips iff every bit below it is 1
\* (is 0)
SuccWord(b) ==
  [i \in 1..Len(b) |-> IF \A j \in (i + 1)..Len(b) : b[j] = 1 THEN 1 - b[i] ELSE b[i]]

PredWord(b) ==
  [i \in 1..Len(b) |-> IF \A j \in (i + 1)..Len(b) : b[j] = 0 THEN 1 - b[i] ELSE b[i]]

\* 2^k as a w-bit word (k < w)
PowerOfTwo(w, k) == [i \in 1..w |-> IF i = w - k THEN 1 ELSE 0]

\* The host range of address bs under prefix length p: network and highest
\* address as they are when p leaves one bit or none, else network + 1 and
\* highest address - 1.
HostRangeOf(bs, p) ==
  LET w    == 8 * Len(bs)
      net  == KeepPrefix(BytesToWord(bs), p)
      high == FillBelowPrefix(BytesToWord(bs), p)
  IN  IF p >= w - 1
        THEN <<WordToBytes(net), WordToBytes(high)>>
        ELSE <<WordToBytes(SuccWord(net)), WordToBytes(PredWord(high))>>

\* The text an analyzer or address constructor call was to read as an
\* address
AddressText == IF addr.ctor = "IPAnalyzer" THEN AddressPart(input) ELSE input

-----------------------------------------------------------------------------
(* Properties                                                              *)

\* C1: constructing an analyzer from <address>/<suffix> fails with the
\* format error (std::invalid_argument) whenever the suffix is not a
\* non-negative integer within the family's bit width (0..32 for IPv4,
\* 0..128 for IPv6); stated here for the suffixes that are integers,
\* negative ones and those of 256 and above included.
C1_BadSuffixIsFormatError ==
  (/\ addr.ctor = "IPAnalyzer"
   /\ HasSlash(input)
   /\ IsIntegerText(SuffixPart(input))
   /\ ~IsNaturalAtMost(SuffixPart(input), FamilyWidth(input)))
  => addr.err = "invalid_argument"

\* C2: an IPv6 text with "::" is parsed as its explicit groups with the
\* zero groups that complete them to eight put where the "::" is, also
\* when a side of the "::" has no group; so 2001:db8::1 is
\* 2001:0db8:0:0:0:0:0:0001 and 2001:db8:85a3::8a2e:370:7334 has the bytes
\* of 2001:0db8:85a3:0000:0000:8a2e:0370:7334.
C2_CompressionExpandsInPlace ==
  (/\ impl = "dual"
   /\ addr.ctor \in {"IPv6Address", "IPAnalyzer"}
   /\ IsCompressed(AddressText)
   /\ HasSlash(input) => IsNaturalAtMost(SuffixPart(input), 128))
  => /\ addr.err = "none"
     /\ addr.bytes = GroupBytes(CompressedGroups(AddressText))

\* C3: IPv4Address(text) succeeds only for exactly four '.'-separated
\* groups of decimal digits with values 0..255, stores the four bytes in
\* the order given, and fails with the format error for every other text.
C3_OnlyDottedQuadsParse ==
  addr.ctor = "IPv4Address"
  => /\ addr.err = "none" <=> IsDottedQuad(input)
     /\ addr.err = "none" => addr.bytes = DottedQuadBytes(input)
     /\ addr.err # "none" => addr.err = "invalid_argument"

\* C4: IPv6Address(text) fails with the format error, producing no
\* address, for every text whose expanded form has fewer or more than
\* eight groups.
C4_WrongGroupCountIsFormatError ==
  (/\ addr.ctor = "IPv6Address"
   /\ FindChar(input, ":") # 0
   /\ ExpandedGroupCount(input) # 8)
  => addr.err = "invalid_argument" /\ addr.bytes = <<>>

\* C5: for an IPv4 address and p in 0..32, get_host_range returns
\* [network, broadcast] unchanged when p is 31 or 32 and
\* [network + 1, broadcast - 1], in 32-bit arithmetic, otherwise.
C5_HostRange4 ==
  (out.op = "get_host_range" /\ Len(ip_) = 4) => out.val = HostRangeOf(ip_, cidr_)

\* C6: for an IPv6 address and p in 0..128, get_host_range returns
\* [network, all-ones-below-prefix address] unchanged when p is 127 or 128
\* and [network + 1, all-ones-below-prefix address - 1], with carry and
\* borrow across the 16 bytes, otherwise.
C6_HostRange6 ==
  (out.op = "get_host_range" /\ Len(ip_) = 16) => out.val = HostRangeOf(ip_, cidr_)

\* C7: for p in 0..8N, get_netmask returns the N bytes whose leading p
\* bits are 1 and whose other bits are 0, whatever the address.
C7_NetmaskIsPrefixMask ==
  out.op = "get_netmask" => out.val = WordToBytes(PrefixMask(8 * Len(ip_), cidr_))

\* C8: for p in 0..8N, get_network returns the address and-ed with the
\* netmask for p: all zeros for p = 0, the address itself for p = 8N.
C8_NetworkIsMaskedAddress ==
  out.op = "get_network"
  => /\ out.val = WordToBytes(KeepPrefix(BytesToWord(ip_), cidr_))
     /\ cidr_ = 0 => out.val = [i \in 1..Len(ip_) |-> 0]
     /\ cidr_ = 8 * Len(ip_) => out.val = ip_

\* The values get_network and get_netmask can return for the analyzer held
NetworkValues ==
  IF impl = "v4" THEN {get_network(ip_, cidr_)}
  ELSE {get_network4_dual(ip_, m) : m \in Mask32_dual(cidr_)}

NetmaskValues ==
  IF impl = "v4" THEN {get_netmask(ip_, cidr_)}
  ELSE {get_netmask4_dual(ip_, m) : m \in Mask32_dual(cidr_)}

BytesOrNot(n, m) == WordToBytes(BitOr(BytesToWord(n), BitNot(BytesToWord(m))))

\* C9: for an IPv4 address and p in 0..32, get_broadcast is get_network
\* or-ed with the complement of get_netmask: 255.255.255.255 for p = 0,
\* the address itself for p = 32.
C9_BroadcastIsNetworkOrNotMask ==
  (out.op = "get_broadcast" /\ Len(ip_) = 4)
  => /\ \E n \in NetworkValues : \E m \in NetmaskValues : out.val = BytesOrNot(n, m)
     /\ cidr_ = 0 => out.val = <<255, 255, 255, 255>>
     /\ cidr_ = 32 => out.val = ip_

\* C10: for an IPv4 prefix length p, get_num_hosts returns 1 for p = 32,
\* 2 for p = 31 and 2^(32-p) - 2 otherwise, the integer returned holding
\* the whole value: 4294967294 (0xFFFFFFFE) for p = 0, 254 for p = 24.
C10_NumHosts4 ==
  (out.op = "get_num_hosts" /\ Len(ip_) = 4)
  => LET n == ZeroExtend(out.val, 64) IN
     /\ cidr_ = 32 => n = WordOf(1, 64)
     /\ cidr_ = 31 => n = WordOf(2, 64)
     /\ cidr_ < 31 => WordAdd(n, WordOf(2, 64)) = PowerOfTwo(64, 32 - cidr_)
     /\ cidr_ = 0 => WordToBytes(n) = <<0, 0, 0, 0, 255, 255, 255, 254>>
     /\ cidr_ = 24 => ValueOf(out.val) = 254

\* get_num_hosts was called on an IPv4 analyzer of prefix length 0
C10_Witness == out.op = "get_num_hosts" /\ Len(ip_) = 4 /\ cidr_ = 0

\* The host count the build held returns for the address held under prefix
\* length q, as a 64-bit word
NumHostsAt(q) ==
  IF impl = "v4" THEN ZeroExtend(get_num_hosts(ip_, q), 64)
  ELSE get_num_hosts_dual(ip_, q)

WordLess(a, b) == WordLeq(a, b) /\ a # b

\* C11: within one family the host count does not grow with the prefix
\* length: the count returned for p is at least the count for every longer
\* q and at most the count for every shorter q; for IPv4 it is strictly
\* greater than the count for every longer q up to 30 (the counts of 31 and
\* 32 are the collapsed ones), and for IPv6 the value returned for p <= 64
\* is at least every count returned for a prefix length above 64.
C11_NumHostsMonotonic ==
  out.op = "get_num_hosts"
  => LET n == ZeroExtend(out.val, 64)
         w == 8 * Len(ip_)
     IN  /\ \A q \in (cidr_ + 1)..w : WordLeq(NumHostsAt(q), n)
         /\ \A q \in 0..(cidr_ - 1) : WordLeq(n, NumHostsAt(q))
         /\ w = 32 => \A q \in (cidr_ + 1)..30 : WordLess(NumHostsAt(q), n)
         /\ (w = 128 /\ cidr_ <= 64) => \A q \in 65..128 : WordLeq(NumHostsAt(q), n)

\* get_num_hosts was called on an IPv6 analyzer of prefix length 64, the
\* last one of the sentinel
C11_Witness == out.op = "get_num_hosts" /\ Len(ip_) = 16 /\ cidr_ = 64 /\ impl = "dual"


\* The address lies in 10.0.0.0/8, 172.16.0.0/12 or 192.168.0.0/16
InPrivateBlock(bs) ==
  \/ bs[1] = 10
  \/ bs[1] = 172 /\ bs[2] >= 16 /\ bs[2] <= 31
  \/ bs[1] = 192 /\ bs[2] = 168

\* C12: for an IPv4 address is_private returns true iff the address lies
\* in 10.0.0.0/8, 172.16.0.0/12 or 192.168.0.0/16, whatever the prefix
\* length, and the range comparisons of the IPv4-only analyzer and the
\* masked comparisons of the dual-family one give the same answer.
C12_IsPrivate4 ==
  (out.op = "is_private" /\ Len(ip_) = 4)
  => /\ out.val = InPrivateBlock(ip_)
     /\ out.val = is_private(ip_, cidr_)
     /\ out.val = IPv4_is_private_dual(ip_)
     /\ \A q \in 0..32 : is_private(ip_, q) = out.val

\* is_private answered true for the last address of 172.16.0.0/12
C12_Witness ==
  out.op = "is_private" /\ out.val = TRUE /\ ip_ = <<172, 31, 255, 255>>

\* The text is eight hextets separated by single colons
IsFullColonText(s) ==
  LET g == SplitOn(s, ":") IN
  Len(g) = 8 /\ \A k \in 1..8 : IsHextet(g[k])

\* The text is a valid address of a family the build held supports
IsValidAddress(s) ==
  \/ IsDottedQuad(s)
  \/ impl = "dual" /\ (IsFullColonText(s) \/ IsCompressed(s))

\* C13: constructing an analyzer from a valid address without a '/'
\* succeeds, and the prefix length is the full width of the family: 32
\* when the text has no ':', 128 when it has one.
C13_BareAddressIsSingleHost ==
  (addr.ctor = "IPAnalyzer" /\ ~HasSlash(input) /\ IsValidAddress(input))
  => /\ addr.err = "none"
     /\ pc = "constructed"
     /\ cidr_ = FamilyWidth(input)
     /\ Len(ip_) * 8 = FamilyWidth(input)

\* C14: every constructor call, of an address or of an analyzer, either
\* returns or throws the one format error, std::invalid_argument; no other
\* exception (std::out_of_range, std::length_error) leaves it.
C14_SingleErrorKind ==
  addr.ctor # "none" => addr.err \in {"none", "invalid_argument"}

\* C15: a constructed analyzer holds a 4-byte address with a prefix length
\* of at most 32 or a 16-byte address with a prefix length of at most 128,
\* and no derivation call changes the address or the prefix length, so the
\* bound holds after any sequence of calls.
C15_PrefixWithinWidth ==
  /\ [](pc = "constructed"
        => /\ Len(ip_) \in {4, 16}
           /\ cidr_ >= 0
           /\ cidr_ <= 8 * Len(ip_))
  /\ [][pc = "constructed"
        => /\ pc' = "constructed"
           /\ ip_' = ip_
           /\ cidr_' = cidr_]_vars

\* A derivation has returned on an IPv6 analyzer of prefix length 128
C15_Witness ==
  pc = "constructed" /\ out.op = "get_host_range" /\ Len(ip_) = 16 /\ cidr_ = 128

\* The scope class of a 16-byte address by its leading bits, under the
\* names GetIPv6Scope prints: fe80::/10, fc00::/7, ff00::/8, the rest
ScopeClass(bs) ==
  LET b == BytesToWord(bs) IN
  IF SubSeq(b, 1, 10) = <<1, 1, 1, 1, 1, 1, 1, 0, 1, 0>> THEN "Link-Local"
  ELSE IF SubSeq(b, 1, 7) = <<1, 1, 1, 1, 1, 1, 0>> THEN "Unique Local"
  ELSE IF SubSeq(b, 1, 8) = <<1, 1, 1, 1, 1, 1, 1, 1>> THEN "Multicast"
  ELSE "Global"

\* C16: the IPv6 scope label is one of four, decided by the leading bytes
\* of the address held (not of the network address): Link-Local for byte 0
\* = 0xFE with the top two bits of byte 1 = 10, else Unique Local for byte
\* 0 = 0xFD or 0xFC, else Multicast for byte 0 = 0xFF, else Global; ::1/128
\* is Global; and the label is Unique Local exactly when is_private holds.
C16_ScopeLabel ==
  out.op = "scope"
  => /\ out.val \in {"Link-Local", "Unique Local", "Multicast", "Global"}
     /\ out.val = ScopeClass(ip_)
     /\ (out.val = "Unique Local") <=> is_private_dual(ip_)
     /\ input = Loopback => out.val = "Global"

\* The scope of fe80:0:0:0:0:0:0:1/0, whose network address is all zeros,
\* was asked for
C16_Witness ==
  /\ out.op = "scope"
  /\ out.val = "Link-Local"
  /\ cidr_ = 0
  /\ ip_[1] = 254
  /\ get_network6_dual(ip_, cidr_)[1] = 0

\* The values a call of the dual-family analyzer on (bs, cidr) can return,
\* one for each mask the build's shift can produce; the host count as a
\* 64-bit word
DualValues(op, bs, cidr) ==
  IF op = "get_network" THEN {get_network4_dual(bs, m) : m \in Mask32_dual(cidr)}
  ELSE IF op = "get_netmask" THEN {get_netmask4_dual(bs, m) : m \in Mask32_dual(cidr)}
  ELSE IF op = "get_broadcast" THEN {get_broadcast4_dual(bs, m) : m \in Mask32_dual(cidr)}
  ELSE IF op = "get_host_range" THEN {get_host_range4_dual(bs, cidr, m) : m \in Mask32_dual(cidr)}
  ELSE IF op = "get_num_hosts" THEN {get_num_hosts_dual(bs, cidr)}
  ELSE {is_private_dual(bs)}

\* The value the IPv4-only analyzer returned, the host count as a 64-bit
\* word
ReturnedValue ==
  IF out.op = "get_num_hosts" THEN ZeroExtend(out.val, 64) ELSE out.val

\* C17: every text a.b.c.d/p, with a valid address and 0 <= p <= 32, that
\* the IPv4-only analyzer accepts is accepted by the dual-family analyzer
\* with the same address and prefix length, and every derivation of the
\* dual-family analyzer returns what the IPv4-only one returned: network,
\* netmask, broadcast, host range, host count and private flag.
C17_DualSubsumesV4 ==
  (/\ impl = "v4"
   /\ pc = "constructed"
   /\ HasSlash(input)
   /\ IsDottedQuad(AddressPart(input))
   /\ IsNaturalAtMost(SuffixPart(input), 32))
  => LET d == IPAnalyzer_dual(input) IN
     /\ d.err = "none"
     /\ d.bytes = ip_
     /\ d.cidr = cidr_
     /\ out.op # "none"
        => \A v \in DualValues(out.op, d.bytes, d.cidr) : v = ReturnedValue

\* C18: the pair (first, last) returned by get_host_range is ordered and
\* lies inside the subnet of the address and prefix length held: network
\* <= first <= last <= highest address of the subnet, as unsigned
\* big-endian integers, so neither the increment nor the decrement wraps.
C18_HostRangeInsideSubnet ==
  out.op = "get_host_range"
  => LET a     == BytesToWord(ip_)
         first == BytesToWord(out.val[1])
         last  == BytesToWord(out.val[2])
     IN  /\ WordLeq(KeepPrefix(a, cidr_), first)
         /\ WordLeq(first, last)
         /\ WordLeq(last, FillBelowPrefix(a, cidr_))

====
